---- MODULE Spec2Model ----
(***************************************************************************)
(* Netatmo weather adapter: the OAuth2 controller (src/src/netatmo.ts),    *)
(* the callback channel (src/src/callback.ts) and the adapter with its     *)
(* device objects and polling timers (src/src/adapter.ts).                 *)
(*                                                                         *)
(* The program runs on one event loop.  Every action below is one          *)
(* run-to-completion step: a host call, a timer firing, or the             *)
(* continuation of an awaited network / database request.                  *)
(***************************************************************************)
EXTENDS Integers, Sequences, FiniteSets, TLC

\* ------------------------------------------------------------------ bounds
\* objects that may be constructed per remote device id
MaxGen == 2
\* discovery requests of one kind that may be in flight at the same time
MaxInFlight == 1
\* fetches one polling timer may have in flight at the same time
MaxPolls == 2
\* refresh requests, and armed refresh timers, at the same time
MaxRefreshes == 2
\* authorization attempts that may be pending at the same time
MaxAttempts == 2
\* last instant of the clock
MaxTime == 3
\* the raw wifi_status / rf_status readings of a remote device
MinSignal == 50
MaxSignal == 125
\* the largest raw health index a coach reports (the map has five entries)
MaxHealthIdx == 6
\* the largest auxiliary reading (battery_percent, wifi_status,
\* co2_calibrating as 0 or not 0) of a remote device
MaxAux == 4

\* ------------------------------------------------------- remote device ids
Stations == {"S"}
Modules  == {"A", "B"}
Coaches  == {"H"}
Ids      == Stations \cup Modules \cup Coaches

NAMain    == "NAMain"
NAModule1 == "NAModule1"
NHC       == "NHC"

\* NetatmoDevice.type of the remote device with this id
TypeOf(id) ==
    IF id \in Stations THEN NAMain ELSE IF id \in Coaches THEN NHC ELSE NAModule1

\* a local device object: the remote id and the ordinal of the object among
\* those constructed for that id
Objs  == Ids \X (1..MaxGen)
NoObj == <<"", 0>>

\* -------------------------------------------------------------- variables
VARIABLES
    \* --- adapter (Adapter.devices and the WeatherStation objects)
    devices,      \* registry: id -> ordinal of the registered object, 0 = none
    gen,          \* id -> number of objects constructed so far
    parent,       \* object -> parent object (NoObj = none)
    pollingFor,   \* object -> set of requester ids
    iid,          \* object -> TRUE iff this.iid holds a timer handle
    ntimers,      \* object -> number of live setInterval timers it started
    connected,    \* object -> last connectedNotify value
    value,        \* object -> cached value of its data property
    stationsReq,  \* discovery getStationsData() requests in flight
    coachReq,     \* discovery getHealthyHomeCoachData() requests in flight
    pollReq,      \* object -> updateDevice fetches in flight
    unloaded,     \* unload() has run
    \* --- controller (Netatmo)
    token,        \* config.token ("" = none)
    refresh_token,\* config.refresh_token ("" = none)
    expires,      \* config.expires (0 = undefined)
    saved,        \* persisted config: [expires, refresh_token]
    refreshInterval, \* TRUE iff this.refreshInterval holds a handle
    timers,       \* armed setTimeout refresh timers: seq of [at, held]
    refreshes,    \* refresh() calls awaiting a continuation
    now,          \* Date.now()
    \* --- authorization attempts (NetatmoWeatherAdapter.authenticate)
    attempts,     \* slot -> [pc, nonce, origin, cfg]
    listener,     \* slot whose CallbackListener is in the handler's map
    resolved,     \* that listener's promise is resolved
    last          \* the last step's input and the error it threw or logged

adapterVars == <<devices, gen, parent, pollingFor, iid, ntimers, connected, value>>
requestVars == <<stationsReq, coachReq, pollReq>>
tokenVars   == <<token, refresh_token, expires>>
refreshVars == <<refreshInterval, timers, refreshes>>
authVars    == <<attempts, listener, resolved>>
vars == <<adapterVars, requestVars, unloaded, tokenVars, saved, refreshVars,
          now, authVars, last>>

\* ------------------------------------------------ WeatherStation (adapter.ts)
\* The adapter state as one record, so that a handler's calls compose.
AdapterState ==
    [devices |-> devices, gen |-> gen, parent |-> parent,
     pollingFor |-> pollingFor, iid |-> iid, ntimers |-> ntimers,
     connected |-> connected, value |-> value, thrown |-> FALSE,
     notified |-> {}]

IsHealthCoach(o) == TypeOf(o[1]) = NHC

updatableType(o) == IF IsHealthCoach(o) THEN NHC ELSE NAMain

canUpdate(o) == TypeOf(o[1]) = updatableType(o)

RECURSIVE startPolling(_, _, _)
\* startPolling without the delegation: every device keeps its own set
\* and timer
startPollingOwnTimer(a, o, id) ==
    [a EXCEPT !.pollingFor[o] = @ \cup {id},
              !.iid[o] = TRUE,
              !.ntimers[o] = IF a.iid[o] THEN @ ELSE @ + 1]

startPollingTwoTimers(a, o, id) ==
    IF canUpdate(o)
    THEN [a EXCEPT !.pollingFor[o] = @ \cup {id},
                   !.iid[o] = TRUE,
                   !.ntimers[o] = @ + 1]
    ELSE IF a.parent[o] # NoObj
         THEN startPolling(a, a.parent[o], id)
         ELSE a

startPolling(a, o, id) ==
    IF canUpdate(o)
    THEN IF ~a.iid[o]
         THEN [a EXCEPT !.pollingFor[o] = @ \cup {id},
                        !.iid[o] = TRUE,
                        !.ntimers[o] = @ + 1]
         ELSE [a EXCEPT !.pollingFor[o] = @ \cup {id}]
    ELSE IF a.parent[o] # NoObj
         THEN startPolling(a, a.parent[o], id)
         ELSE a

RECURSIVE stopPolling(_, _, _)
stopPollingKeepsTimer(a, o, id) ==
    IF canUpdate(o) /\ a.iid[o]
    THEN [a EXCEPT !.pollingFor[o] = @ \ {id}]
    ELSE IF a.parent[o] # NoObj
         THEN stopPolling(a, a.parent[o], id)
         ELSE a

stopPolling(a, o, id) ==
    IF canUpdate(o) /\ a.iid[o]
    THEN IF a.pollingFor[o] \ {id} = {}
         THEN [a EXCEPT !.pollingFor[o] = {},
                        !.iid[o] = FALSE,
                        !.ntimers[o] = @ - 1]
         ELSE [a EXCEPT !.pollingFor[o] = @ \ {id}]
    ELSE IF a.parent[o] # NoObj
         THEN stopPolling(a, a.parent[o], id)
         ELSE a

\* Math.max(Math.min(num, max), min)
clamp(num, max, min) ==
    LET m == IF num < max THEN num ELSE max
    IN  IF m > min THEN m ELSE min

\* mapSignalToPercent without the clamp
mapSignalToPercentUnclamped(signal, min, range) ==
    ((min - signal) * 90) \div range + 10

\* ((min - signal) / range) * 90 + 10, clamped to the defaults 100 and 0.
\* The product is formed before the quotient to stay within the integers:
\* for the range 30 it is a multiple of the range, so the quotient is exact.
mapSignalToPercent(signal, min, range) ==
    clamp(((min - signal) * 90) \div range + 10, 100, 0)

mapWifiToPercent(wifi) == mapSignalToPercent(wifi, 86, 30)

mapRfToPercent(rf) == mapSignalToPercent(rf, 90, 30)

HEALTH_IDX_MAP == <<"Healthy", "Fine", "Fair", "Poor", "Unhealthy">>

\* the JavaScript value undefined, as a property value
Undefined == "undefined"

\* dashboard_data.health_idx of a remote coach: a number, a text that is
\* no number, null, or no such key
RawHealthIdx ==
    [kind : {"number"}, n : 0..MaxHealthIdx]
    \cup {[kind |-> "text"], [kind |-> "null"], [kind |-> "missing"]}

\* HEALTH_IDX_MAP[value]: undefined for every index but 0..4
HealthIdxName(raw) ==
    IF raw.kind = "number" /\ raw.n + 1 \in 1..Len(HEALTH_IDX_MAP)
    THEN HEALTH_IDX_MAP[raw.n + 1]
    ELSE Undefined

\* the value the constructor gives the health_idx property: NaN stands in
\* for a missing key, and isNaN holds for NaN and for a text, not for null
healthIdxConstructed(raw) ==
    IF raw.kind \in {"missing", "text"} THEN "" ELSE HealthIdxName(raw)

\* the value of the health_idx property after updateProperties: a missing
\* key is skipped, everything else is looked up in the map
healthIdxUpdated(cached, raw) ==
    IF raw.kind = "missing" THEN cached ELSE HealthIdxName(raw)

\* the auxiliary properties a device may carry besides its data types
AuxProperties == {"battery", "signal", "calibrating"}

\* an auxiliary reading of a remote device: the key is absent or holds a
\* number; also the value of a property, Absent when there is no property
Absent == [kind |-> "absent"]
AuxReadings == {Absent} \cup [kind : {"value"}, v : 0..MaxAux]

\* the guard under which the constructor attaches the property and
\* updateProperties writes it: battery_percent and wifi_status must be
\* truthy, co2_calibrating must be a key of the device
AuxPresent(prop, r) ==
    IF prop = "calibrating" THEN r # Absent
    ELSE r # Absent /\ r.v # 0

\* the value written for a reading that passes the guard
AuxValue(prop, r) ==
    IF prop = "signal" THEN [kind |-> "value", v |-> mapWifiToPercent(r.v)] ELSE r

\* the property after the constructor
auxConstructed(prop, r) ==
    IF AuxPresent(prop, r) THEN AuxValue(prop, r) ELSE Absent

\* the property after updateProperties and the error it raised: updateProp
\* reads property.value of what findProperty returned, which is undefined
\* when the property was never attached
auxUpdated(prop, cached, r) ==
    IF ~AuxPresent(prop, r) THEN [value |-> cached, err |-> ""]
    ELSE IF cached = Absent THEN [value |-> Absent, err |-> "TypeError"]
    ELSE [value |-> AuxValue(prop, r), err |-> ""]

\* updateProp without the comparison
updatePropAlways(a, o, v) ==
    [a EXCEPT !.value[o] = v, !.notified = @ \cup {o}]

\* notified: the devices whose notifyPropertyChanged ran in this step
updateProp(a, o, v) ==
    IF a.value[o] # v
    THEN [a EXCEPT !.value[o] = v, !.notified = @ \cup {o}]
    ELSE a

\* updateProperties without the early return for an unreachable device
updatePropertiesOfUnreachable(a, o, dev) ==
    updateProp([a EXCEPT !.connected[o] = dev.reachable], o, dev.value)

updateProperties(a, o, dev) ==
    IF ~dev.reachable
    THEN [a EXCEPT !.connected[o] = FALSE]
    ELSE updateProp([a EXCEPT !.connected[o] = TRUE], o, dev.value)

\* Adapter.handleDeviceAdded of the base class: the registry entry
superHandleDeviceAdded(a, o) == [a EXCEPT !.devices[o[1]] = o[2]]

handleDeviceAdded(a, o) == superHandleDeviceAdded(startPolling(a, o, o[1]), o)

\* the constructor without the check for a parent station
NewDeviceWithoutParentCheck(a, dev, par) ==
    LET o  == <<dev.id, a.gen[dev.id] + 1>>
        a1 == [a EXCEPT !.gen[dev.id] = @ + 1,
                        !.parent[o] = par,
                        !.pollingFor[o] = {},
                        !.iid[o] = FALSE,
                        !.connected[o] = TRUE,
                        !.value[o] = dev.value]
    IN  handleDeviceAdded(a1, o)

\* new WeatherStation(...) / new HealthCoach(...)
NewDevice(a, dev, par) ==
    IF TypeOf(dev.id) \notin {NAMain, NHC} /\ par = NoObj
    THEN [a EXCEPT !.thrown = TRUE]
    ELSE LET o  == <<dev.id, a.gen[dev.id] + 1>>
             a1 == [a EXCEPT !.gen[dev.id] = @ + 1,
                             !.parent[o] = par,
                             !.pollingFor[o] = {},
                             !.iid[o] = FALSE,
                             !.connected[o] = TRUE,
                             !.value[o] = dev.value]
             a2 == handleDeviceAdded(a1, o)
         IN  IF ~dev.reachable THEN [a2 EXCEPT !.connected[o] = FALSE] ELSE a2

\* getOrCreateDevice without the registry lookup
getOrCreateDeviceAlwaysNew(a, dev, par) == NewDevice(a, dev, par)

getOrCreateDevice(a, dev, par) ==
    IF a.devices[dev.id] # 0
    THEN startPolling(a, <<dev.id, a.devices[dev.id]>>, dev.id)
    ELSE NewDevice(a, dev, par)

\* the object getOrCreateDevice returns, read after the call
InstanceOf(a, id) == <<id, a.devices[id]>>

RECURSIVE addModules(_, _, _)
addModules(a, mods, inst) ==
    IF mods = <<>> \/ a.thrown THEN a
    ELSE addModules(getOrCreateDevice(a, Head(mods), inst), Tail(mods), inst)

\* addDevice, dropping from the registry the modules the station no
\* longer lists
addDevicePruning(a, dev) ==
    LET a1 == getOrCreateDevice(a, dev, NoObj)
        a2 == IF ~a1.thrown /\ TypeOf(dev.id) = NAMain /\ Len(dev.modules) > 0
              THEN addModules(a1, dev.modules, InstanceOf(a1, dev.id))
              ELSE a1
        listed == {dev.modules[j].id : j \in 1..Len(dev.modules)}
    IN  IF TypeOf(dev.id) = NAMain
        THEN [a2 EXCEPT !.devices =
                 [id \in Ids |-> IF id \in Modules \ listed THEN 0 ELSE @[id]]]
        ELSE a2

addDevice(a, dev) ==
    LET a1 == getOrCreateDevice(a, dev, NoObj)
    IN  IF ~a1.thrown /\ TypeOf(dev.id) = NAMain /\ Len(dev.modules) > 0
        THEN addModules(a1, dev.modules, InstanceOf(a1, dev.id))
        ELSE a1

\* the loop of addDevices' then-callback; an exception ends it
RECURSIVE addAll(_, _)
addAll(a, devs) ==
    IF devs = <<>> \/ a.thrown THEN a
    ELSE addAll(addDevice(a, Head(devs)), Tail(devs))

\* --------------------------------------------------------- Netatmo (netatmo.ts)
NoParam == "<absent>"

Nonces        == {"n1", "n2"}
AccessTokens  == {"t1", "t2"}
RefreshTokens == {"r1", "r2"}
ExpiresIns    == {1, 2}

\* NetatmoTokenResponse bodies
TokenResponses ==
    [access_token : AccessTokens, refresh_token : RefreshTokens,
     expires_in : ExpiresIns]

ControllerState ==
    [token |-> token, refresh_token |-> refresh_token, expires |-> expires,
     refreshInterval |-> refreshInterval, timers |-> timers,
     refreshes |-> refreshes, log |-> ""]

\* needsAuth that also looks at the stored expiry
needsAuthWhenExpired(tok) == tok = "" \/ expires <= now

\* get needsAuth: !this.config.token
needsAuth(tok) == tok = ""

\* a later assignment to this.refreshInterval, or its deletion, drops the
\* reference to the timer armed before
Unheld(ts) == [i \in 1..Len(ts) |-> [ts[i] EXCEPT !.held = FALSE]]

\* a list of pending requests or timers, kept within the model's bound: one
\* beyond it is never answered (never fires)
Push(s, x) == IF Len(s) < MaxRefreshes THEN Append(s, x) ELSE s

NoRefreshCfg == [expires |-> 0, refresh_token |-> ""]

RemoveAt(s, i) == SubSeq(s, 1, i - 1) \o SubSeq(s, i + 1, Len(s))

\* refresh() up to the await of fetch, a token request sent whether or not
\* a refresh token is held
refreshWithoutToken(c) ==
    [c EXCEPT !.refreshInterval = FALSE,
              !.timers = Unheld(@),
              !.token = "",
              !.refreshes = Push(@, [pc |-> "fetch", cfg |-> NoRefreshCfg])]

\* refresh() up to the await of fetch; log is what it hands to console.error
refresh(c) ==
    LET c1 == [c EXCEPT !.refreshInterval = FALSE,
                        !.timers = Unheld(@),
                        !.token = ""]
    IN  IF c1.refresh_token = ""
        THEN [c1 EXCEPT !.log = "Can not refresh token."]
        ELSE [c1 EXCEPT !.refreshes = Push(@, [pc |-> "fetch", cfg |-> NoRefreshCfg])]

initRefresh(c) ==
    LET expiresIn == now - c.expires
    IN  IF expiresIn > 0 /\ c.token # ""
        THEN [c EXCEPT !.refreshInterval = TRUE,
                       !.timers = Push(Unheld(@),
                                         [at |-> now + expiresIn, held |-> TRUE])]
        ELSE refresh(c)

HeldTimers(ts) == {i \in 1..Len(ts) : ts[i].held}

unInit(c) ==
    IF c.refreshInterval /\ HeldTimers(c.timers) # {}
    THEN [c EXCEPT !.timers = RemoveAt(@, CHOOSE i \in HeldTimers(c.timers) : TRUE)]
    ELSE c

\* the assignments of a successful token response (refresh and authenticate)
StoreTokens(c, data) ==
    [c EXCEPT !.expires = now + data.expires_in,
              !.token = data.access_token,
              !.refresh_token = data.refresh_token]

\* the object updateConfig hands to setConfig
updateConfig(c) == [expires |-> c.expires, refresh_token |-> c.refresh_token]

\* URLSearchParams of the redirected URL: has / get
Has(url, p) == url[p] # NoParam
Get(url, p) == url[p]

ValidateRedirectAnyState(url, state) ==
    IF ~Has(url, "state") \/ ~Has(url, "code")
    THEN "flow failed"
    ELSE IF Get(url, "code") = ""
         THEN "no code"
         ELSE "ok"

\* the validation of authenticate after the yield: "ok" or the error thrown
ValidateRedirect(url, state) ==
    IF ~Has(url, "state") \/ Get(url, "state") # state \/ ~Has(url, "code")
    THEN "flow failed"
    ELSE IF Get(url, "code") = ""
         THEN "no code"
         ELSE "ok"

\* ------------------------------------------------------ cloud responses
Statuses == {200, 403, 500}
\* a 200 response whose body.devices is not an array
NotArray == [isArray |-> FALSE, devices |-> <<>>]

Arrays(lists) == {[isArray |-> TRUE, devices |-> l] : l \in lists}

ModuleLists == {<<>>, <<"A">>, <<"B">>, <<"A", "B">>}

ModuleRecs(R, V) ==
    [id : Modules, reachable : R, value : V, modules : {<<>>}]

ModuleSeqs(ml, R, V) ==
    {f \in [1..Len(ml) -> ModuleRecs(R, V)] : \A i \in 1..Len(ml) : f[i].id = ml[i]}

StationRecs(R, V) ==
    UNION {[id : Stations, reachable : R, value : V, modules : ModuleSeqs(ml, R, V)]
           : ml \in ModuleLists}

CoachRecs(R, V) ==
    [id : Coaches, reachable : R, value : V, modules : {<<>>}]

\* body.devices of a getstationsdata / gethomecoachsdata response
StationLists(R, V) == {<<>>} \cup {<<d>> : d \in StationRecs(R, V)}
CoachLists(R, V)   == {<<>>} \cup {<<d>> : d \in CoachRecs(R, V)}

\* the same, the token kept on a 403
FetchResultKeepsToken(tok, status, body) ==
    IF status # 200
    THEN [token |-> tok, data |-> <<>>]
    ELSE IF ~body.isArray
         THEN [token |-> tok, data |-> <<>>]
         ELSE [token |-> tok, data |-> body.devices]

\* the same, the token cleared by every failure
FetchResultClearsOnFailure(tok, status, body) ==
    IF status # 200
    THEN [token |-> "", data |-> <<>>]
    ELSE IF ~body.isArray
         THEN [token |-> "", data |-> <<>>]
         ELSE [token |-> tok, data |-> body.devices]

\* getStationsData / getHealthyHomeCoachData after the response arrived:
\* the token left in the store and the array the promise resolves with
FetchResult(tok, status, body) ==
    IF status # 200
    THEN [token |-> IF status = 403 THEN "" ELSE tok, data |-> <<>>]
    ELSE IF ~body.isArray
         THEN [token |-> tok, data |-> <<>>]
         ELSE [token |-> tok, data |-> body.devices]

Inc(n) == IF n < MaxInFlight THEN n + 1 ELSE n

\* addDevices, both requests sent whether or not a token is held
addDevicesUnguarded(q, tok) ==
    [stationsReq |-> Inc(q.stationsReq), coachReq |-> Inc(q.coachReq)]

\* addDevices: both calls fail with Unauthorized when no token is held
addDevices(q, tok) ==
    IF tok = "" THEN q
    ELSE [stationsReq |-> Inc(q.stationsReq), coachReq |-> Inc(q.coachReq)]

RequestState == [stationsReq |-> stationsReq, coachReq |-> coachReq]

\* ------------------------------------------------------- state assignment
SetAdapter(a) ==
    /\ devices' = a.devices
    /\ gen' = a.gen
    /\ parent' = a.parent
    /\ pollingFor' = a.pollingFor
    /\ iid' = a.iid
    /\ ntimers' = a.ntimers
    /\ connected' = a.connected
    /\ value' = a.value

SetController(c) ==
    /\ token' = c.token
    /\ refresh_token' = c.refresh_token
    /\ expires' = c.expires
    /\ refreshInterval' = c.refreshInterval
    /\ timers' = c.timers
    /\ refreshes' = c.refreshes

SetRequests(q) ==
    /\ stationsReq' = q.stationsReq
    /\ coachReq' = q.coachReq

Slots == 1..MaxAttempts
NoCfg == [expires |-> 0, refresh_token |-> ""]
Idle  == [pc |-> "idle", nonce |-> "", origin |-> "", cfg |-> NoCfg]

FreeSlots == {k \in Slots : attempts[k].pc = "idle"}

\* NetatmoWeatherAdapter.authenticate up to the await of the listener:
\* the generator draws its nonce and the new listener replaces the one
\* stored under the same id
BeginAuthorization(k, nonce, origin) ==
    /\ attempts' = [attempts EXCEPT ![k] =
                       [pc |-> "redirect", nonce |-> nonce, origin |-> origin,
                        cfg |-> NoCfg]]
    /\ listener' = k
    /\ resolved' = FALSE

\* what a step leaves in last: the error it threw or logged ("" when none)
\* and the input it was resumed with, when it is the continuation of a wait
NoInput == [kind |-> "none"]

Did(op, err) == last' = [err |-> err, input |-> NoInput, notified |-> {}]

Saw(input, err) == last' = [err |-> err, input |-> input, notified |-> {}]

\* the same for a step that ran notifyPropertyChanged on the devices n
SawNotifying(input, err, n) == last' = [err |-> err, input |-> input, notified |-> n]

\* ------------------------------------------------------------------ Init
\* the add-on configuration the constructor is given: first start, or a
\* restart with the refresh token and expiry a former run persisted
InitConfigs ==
    {[refresh_token |-> "", expires |-> 0],
     [refresh_token |-> "r1", expires |-> 1]}

\* new NetatmoWeatherAdapter(...): new Netatmo(config), which refreshes when a
\* refresh token is configured, then authenticate() as needsAuth is true
Init ==
    /\ now = 0
    /\ devices = [id \in Ids |-> 0]
    /\ gen = [id \in Ids |-> 0]
    /\ parent = [o \in Objs |-> NoObj]
    /\ pollingFor = [o \in Objs |-> {}]
    /\ iid = [o \in Objs |-> FALSE]
    /\ ntimers = [o \in Objs |-> 0]
    /\ connected = [o \in Objs |-> TRUE]
    /\ value = [o \in Objs |-> 0]
    /\ stationsReq = 0
    /\ coachReq = 0
    /\ pollReq = [o \in Objs |-> 0]
    /\ unloaded = FALSE
    /\ \E cfg \in InitConfigs :
          /\ saved = cfg
          /\ LET c0 == [token |-> "", refresh_token |-> cfg.refresh_token,
                        expires |-> cfg.expires, refreshInterval |-> FALSE,
                        timers |-> <<>>, refreshes |-> <<>>, log |-> ""]
                 c1 == IF cfg.refresh_token # "" THEN initRefresh(c0) ELSE c0
             IN  /\ token = c1.token
                 /\ refresh_token = c1.refresh_token
                 /\ expires = c1.expires
                 /\ refreshInterval = c1.refreshInterval
                 /\ timers = c1.timers
                 /\ refreshes = c1.refreshes
    /\ \E n \in Nonces :
          attempts = [k \in Slots |->
                        IF k = 1
                        THEN [pc |-> "redirect", nonce |-> n,
                              origin |-> "constructor", cfg |-> NoCfg]
                        ELSE Idle]
    /\ listener = 1
    /\ resolved = FALSE
    /\ last = [err |-> "", input |-> NoInput, notified |-> {}]

\* ------------------------------------------------------------ host calls
\* NetatmoWeatherAdapter.startPairing
StartPairing(N) ==
    /\ ~unloaded
    /\ IF needsAuth(token)
       THEN /\ FreeSlots # {}
            /\ \E n \in N :
                  BeginAuthorization(CHOOSE k \in FreeSlots : TRUE, n, "startPairing")
            /\ UNCHANGED requestVars
       ELSE /\ SetRequests(addDevices(RequestState, token))
            /\ UNCHANGED authVars
    /\ Did("startPairing", "")
    /\ UNCHANGED <<adapterVars, pollReq, unloaded, tokenVars, saved, refreshVars, now>>

\* NetatmoWeatherAdapter.handleDeviceRemoved, called by the host for a
\* registered device
HandleDeviceRemoved(o) ==
    /\ ~unloaded
    /\ devices[o[1]] = o[2]
    /\ gen[o[1]] < MaxGen
    /\ SetAdapter([stopPolling(AdapterState, o, o[1]) EXCEPT !.devices[o[1]] = 0])
    /\ Did("handleDeviceRemoved", "")
    /\ UNCHANGED <<requestVars, unloaded, tokenVars, saved, refreshVars, now, authVars>>

\* NetatmoWeatherAdapter.cancelRemoveThing, on any device object it is handed
CancelRemoveThing(o) ==
    /\ ~unloaded
    /\ o[2] <= gen[o[1]]
    /\ SetAdapter(startPolling(AdapterState, o, o[1]))
    /\ Did("cancelRemoveThing", "")
    /\ UNCHANGED <<requestVars, unloaded, tokenVars, saved, refreshVars, now, authVars>>

RECURSIVE stopAll(_, _)
stopAll(a, ids) ==
    IF ids = {} THEN a
    ELSE LET d == CHOOSE x \in ids : TRUE
         IN  stopAll(stopPolling(a, <<d, a.devices[d]>>, d), ids \ {d})

\* the loop of unload over this.devices
unloadDevices(a) == stopAll(a, {d \in Ids : a.devices[d] # 0})

\* NetatmoWeatherAdapter.unload
Unload ==
    /\ ~unloaded
    /\ unloaded' = TRUE
    /\ SetAdapter(unloadDevices(AdapterState))
    /\ SetController(unInit(ControllerState))
    /\ Did("unload", "")
    /\ UNCHANGED <<requestVars, saved, now, authVars>>

\* ------------------------------------------------------- callback channel
Methods == {"POST", "GET"}
Paths   == {"/callback", "/other"}

\* the redirected URL's query parameters, or a body that is no URL
RedirectURLs == [state : Nonces \cup {NoParam}, code : {NoParam, "", "c"}]
Bodies == [kind : {"url"}, url : RedirectURLs]
          \cup {[kind |-> "not a string"], [kind |-> "not a URL"]}

\* CallbackAPIHandler.handleRequest: TRUE iff the request is emitted
Accepted(method, path) == ~(method # "POST" /\ path # "/callback")

\* the waiter resumed with the body: authenticate after the await of the
\* listener, and the generator up to the token request
Resume(k, body) ==
    LET at == attempts[k]
        verdict == IF body.kind = "url"
                   THEN ValidateRedirect(body.url, at.nonce)
                   ELSE body.kind
    IN  IF verdict = "ok"
        THEN /\ attempts' = [attempts EXCEPT ![k].pc = "exchange"]
             /\ UNCHANGED requestVars
             /\ Saw(body, "")
        ELSE /\ attempts' = [attempts EXCEPT ![k] = Idle]
             /\ IF verdict = "not a string" /\ at.origin = "startPairing"
                THEN SetRequests(addDevices(RequestState, token))
                ELSE UNCHANGED <<stationsReq, coachReq>>
             /\ UNCHANGED pollReq
             /\ Saw(body, verdict)

Callback(method, path, body) ==
    /\ ~unloaded
    /\ IF Accepted(method, path) /\ listener # 0 /\ ~resolved
       THEN /\ resolved' = TRUE
            /\ UNCHANGED listener
            /\ Resume(listener, body)
       ELSE /\ Did(IF Accepted(method, path) THEN "callback" ELSE "404", "")
            /\ UNCHANGED <<authVars, requestVars>>
    /\ UNCHANGED <<adapterVars, unloaded, tokenVars, saved, refreshVars, now>>

\* ------------------------------------------- authorization, continued
\* !response.ok || response.status !== 200, negated
TokenResponseOkAlways(status) == TRUE

TokenResponseOk(status) == status = 200

\* a token response as a step's input
TokenResponse(status, data) == [kind |-> "token response", status |-> status]

\* authenticate (generator) resumed by the token response
ExchangeResponse(k, status, data) ==
    /\ attempts[k].pc = "exchange"
    /\ IF ~TokenResponseOk(status)
       THEN /\ attempts' = [attempts EXCEPT ![k] = Idle]
            /\ Saw(TokenResponse(status, data), "token request failed")
            /\ UNCHANGED <<tokenVars, refreshVars>>
       ELSE LET c == StoreTokens(ControllerState, data)
            IN  /\ SetController(c)
                /\ attempts' = [attempts EXCEPT ![k].pc = "save",
                                                ![k].cfg = updateConfig(c)]
                /\ Saw(TokenResponse(status, data), "")
    /\ UNCHANGED <<adapterVars, requestVars, unloaded, saved, now, listener, resolved>>

\* setConfig has persisted the tokens: initRefresh, the generator returns,
\* authenticate of the adapter calls addDevices, and so does startPairing
\* when it was awaiting this attempt
ExchangeSaved(k) ==
    /\ attempts[k].pc = "save"
    /\ saved' = attempts[k].cfg
    /\ LET c  == initRefresh(ControllerState)
           q1 == addDevices(RequestState, c.token)
           q2 == IF attempts[k].origin = "startPairing"
                 THEN addDevices(q1, c.token) ELSE q1
       IN  /\ SetController(c)
           /\ SetRequests(q2)
    /\ attempts' = [attempts EXCEPT ![k] = Idle]
    /\ Did("authenticated", initRefresh(ControllerState).log)
    /\ UNCHANGED <<adapterVars, pollReq, unloaded, now, listener, resolved>>

\* ------------------------------------------------------------- refresh
\* the setTimeout callback of initRefresh
RefreshTimerFires(i) ==
    /\ i \in 1..Len(timers)
    /\ timers[i].at <= now
    /\ SetController(refresh([ControllerState EXCEPT !.timers = RemoveAt(@, i)]))
    /\ Did("refresh timer", refresh(ControllerState).log)
    /\ UNCHANGED <<adapterVars, requestVars, unloaded, saved, now, authVars>>

\* refresh resumed by the token response, the request left pending when it
\* was refused
RefreshResponseRetries(i, status, data) ==
    /\ i \in 1..Len(refreshes)
    /\ refreshes[i].pc = "fetch"
    /\ IF ~TokenResponseOk(status)
       THEN /\ Saw(TokenResponse(status, data), "failed to refresh")
            /\ UNCHANGED <<tokenVars, refreshVars>>
       ELSE LET c == StoreTokens(ControllerState, data)
            IN  /\ SetController([c EXCEPT !.refreshes[i] =
                                     [pc |-> "save", cfg |-> updateConfig(c)]])
                /\ Saw(TokenResponse(status, data), "")
    /\ UNCHANGED <<adapterVars, requestVars, unloaded, saved, now, authVars>>

\* refresh resumed by the token response
RefreshResponse(i, status, data) ==
    /\ i \in 1..Len(refreshes)
    /\ refreshes[i].pc = "fetch"
    /\ IF ~TokenResponseOk(status)
       THEN /\ refreshes' = RemoveAt(refreshes, i)
            /\ Saw(TokenResponse(status, data), "failed to refresh")
            /\ UNCHANGED <<tokenVars, refreshInterval, timers>>
       ELSE LET c == StoreTokens(ControllerState, data)
            IN  /\ SetController([c EXCEPT !.refreshes[i] =
                                     [pc |-> "save", cfg |-> updateConfig(c)]])
                /\ Saw(TokenResponse(status, data), "")
    /\ UNCHANGED <<adapterVars, requestVars, unloaded, saved, now, authVars>>

\* setConfig has persisted the refreshed tokens: initRefresh
RefreshSaved(i) ==
    /\ i \in 1..Len(refreshes)
    /\ refreshes[i].pc = "save"
    /\ saved' = refreshes[i].cfg
    /\ SetController(initRefresh([ControllerState EXCEPT
                                     !.refreshes = RemoveAt(@, i)]))
    /\ Did("refreshed", initRefresh(ControllerState).log)
    /\ UNCHANGED <<adapterVars, requestVars, unloaded, now, authVars>>

\* time passes
Tick ==
    /\ now < MaxTime
    /\ now' = now + 1
    /\ Did("tick", "")
    /\ UNCHANGED <<adapterVars, requestVars, unloaded, tokenVars, saved,
                   refreshVars, authVars>>

\* ----------------------------------------------------------- discovery
\* a data response as a step's input; body.devices is read from a 200
\* response only
DataResponse(status, body) ==
    [kind |-> "data response", status |-> status,
     isArray |-> status = 200 /\ body.isArray,
     devices |-> IF status = 200 /\ body.isArray THEN body.devices ELSE <<>>]

\* the then-callback of addDevices for getStationsData()
StationsResponse(status, devs) ==
    /\ stationsReq > 0
    /\ stationsReq' = stationsReq - 1
    /\ LET r == FetchResult(token, status, devs)
           a == addAll(AdapterState, r.data)
       IN  /\ token' = r.token
           /\ SetAdapter(a)
           /\ Saw(DataResponse(status, devs), IF a.thrown THEN "Error" ELSE "")
    /\ UNCHANGED <<coachReq, pollReq, unloaded, refresh_token, expires, saved,
                   refreshVars, now, authVars>>

\* the then-callback of addDevices for getHealthyHomeCoachData()
CoachResponse(status, devs) ==
    /\ coachReq > 0
    /\ coachReq' = coachReq - 1
    /\ LET r == FetchResult(token, status, devs)
           a == addAll(AdapterState, r.data)
       IN  /\ token' = r.token
           /\ SetAdapter(a)
           /\ Saw(DataResponse(status, devs), IF a.thrown THEN "Error" ELSE "")
    /\ UNCHANGED <<stationsReq, pollReq, unloaded, refresh_token, expires, saved,
                   refreshVars, now, authVars>>

\* -------------------------------------------------------------- polling
\* the setInterval callback of startPolling: updateDevice up to the fetch,
\* which fails with Unauthorized when no token is held
PollTimerFires(o) ==
    /\ ntimers[o] > 0
    /\ pollReq' = IF token = "" THEN pollReq
                  ELSE [pollReq EXCEPT ![o] = IF @ < MaxPolls THEN @ + 1 ELSE @]
    /\ Did("poll", IF token = "" THEN "Unauthorized" ELSE "")
    /\ UNCHANGED <<adapterVars, stationsReq, coachReq, unloaded, tokenVars, saved,
                   refreshVars, now, authVars>>

RECURSIVE updateModules(_, _)
\* the module loop of updateDevice, constructing the modules that are not
\* registered
updateModulesAdding(a, mods) ==
    IF mods = <<>> THEN a
    ELSE LET m == Head(mods)
             s == CHOOSE id \in Stations : TRUE
         IN  updateModules(
                 IF a.devices[m.id] # 0
                 THEN updateProperties(a, <<m.id, a.devices[m.id]>>, m)
                 ELSE NewDevice(a, m, <<s, a.devices[s]>>),
                 Tail(mods))

updateModules(a, mods) ==
    IF mods = <<>> THEN a
    ELSE LET m == Head(mods)
         IN  updateModules(
                 IF a.devices[m.id] # 0
                 THEN updateProperties(a, <<m.id, a.devices[m.id]>>, m)
                 ELSE a,
                 Tail(mods))

\* the then-callback of updateDevice; data[0] of an empty array is undefined
\* and updateProperties throws on it
updateDevice(a, o, data) ==
    IF data = <<>>
    THEN [a EXCEPT !.thrown = TRUE]
    ELSE IF IsHealthCoach(o)
         THEN updateProperties(a, o, data[1])
         ELSE updateModules(updateProperties(a, o, data[1]), data[1].modules)

PollResponse(o, status, devs) ==
    /\ pollReq[o] > 0
    /\ pollReq' = [pollReq EXCEPT ![o] = @ - 1]
    /\ LET r == FetchResult(token, status, devs)
           a == updateDevice(AdapterState, o, r.data)
       IN  /\ token' = r.token
           /\ SetAdapter(a)
           /\ SawNotifying(DataResponse(status, devs),
                           IF a.thrown THEN "TypeError" ELSE "", a.notified)
    /\ UNCHANGED <<stationsReq, coachReq, unloaded, refresh_token, expires, saved,
                   refreshVars, now, authVars>>

\* body.devices of a response to a fetch with device_id = o's id
PollLists(o, R, V) ==
    IF IsHealthCoach(o) THEN CoachLists(R, V) ELSE StationLists(R, V)

\* ------------------------------------------------------------------ Next
\* The environment of a specification: the nonces Math.random may yield (N),
\* the callback requests the host may deliver (M, P, B), the statuses (ST)
\* and bodies (TR) of token responses, and the statuses (DS) and device lists
\* (SL for stations, CL for coaches) of data responses.
HostStep(N) ==
    \/ StartPairing(N)
    \/ \E o \in Objs : HandleDeviceRemoved(o)
    \/ \E o \in Objs : CancelRemoveThing(o)
    \/ Unload

CallbackStep(M, P, B) ==
    \E m \in M, p \in P, b \in B : Callback(m, p, b)

TokenStep(ST, TR) ==
    \/ \E k \in Slots, st \in ST, d \in TR : ExchangeResponse(k, st, d)
    \/ \E k \in Slots : ExchangeSaved(k)
    \/ \E i \in 1..MaxRefreshes : RefreshTimerFires(i)
    \/ \E i \in 1..MaxRefreshes, st \in ST, d \in TR : RefreshResponse(i, st, d)
    \/ \E i \in 1..MaxRefreshes : RefreshSaved(i)

DiscoveryStep(DS, SL, CL) ==
    \/ \E st \in DS, body \in Arrays(SL) \cup {NotArray} : StationsResponse(st, body)
    \/ \E st \in DS, body \in Arrays(CL) \cup {NotArray} : CoachResponse(st, body)

PollStep(DS, SL, CL) ==
    \/ \E o \in Objs : PollTimerFires(o)
    \/ \E o \in Objs, st \in DS :
          \E body \in Arrays(IF IsHealthCoach(o) THEN CL ELSE SL) \cup {NotArray} :
              PollResponse(o, st, body)

Next ==
    \/ HostStep(Nonces)
    \/ CallbackStep(Methods, Paths, Bodies)
    \/ TokenStep(Statuses, TokenResponses)
    \/ Tick
    \/ DiscoveryStep(Statuses, StationLists(BOOLEAN, {1, 2}), CoachLists(BOOLEAN, {1, 2}))
    \/ PollStep(Statuses, StationLists(BOOLEAN, {1, 2}), CoachLists(BOOLEAN, {1, 2}))

Spec == Init /\ [][Next]_vars

\* --- Environments of the specifications below: a first start, the user
\* authorizing with the redirect the cloud issues, every token request
\* granted with one and the same body, every reading the same.
GoodRedirect(n) == [kind |-> "url", url |-> [state |-> n, code |-> "c"]]

OneToken == {[access_token |-> "t1", refresh_token |-> "r1", expires_in |-> 1]}

\* one station with at most the module A, one coach
PollStations == {l \in StationLists({TRUE}, {1}) :
                    \A i \in 1..Len(l) : \A j \in 1..Len(l[i].modules) :
                        l[i].modules[j].id = "A"}

PollCoaches == CoachLists({TRUE}, {1})

InitPoll ==
    /\ Init
    /\ saved.refresh_token = ""
    /\ attempts[1].nonce = "n1"

\* the host starts pairing while the adapter is authenticated
PairWhenAuthenticated == ~needsAuth(token) /\ StartPairing({"n1"})

\* the authorization and the refresh cycle that follows it; no refresh
\* timer is armed, as no time passes
Authorize ==
    \/ CallbackStep({"POST"}, {"/callback"}, {GoodRedirect("n1")})
    \/ \E k \in Slots, d \in OneToken : ExchangeResponse(k, 200, d)
    \/ \E k \in Slots : ExchangeSaved(k)
    \/ \E i \in 1..MaxRefreshes, d \in OneToken : RefreshResponse(i, 200, d)
    \/ \E i \in 1..MaxRefreshes : RefreshSaved(i)

\* the host removes the station or its module
RemoveStationOrModule == \E o \in Objs : o[1] \notin Coaches /\ HandleDeviceRemoved(o)

\* SpecPoll: the registry and the polling timers.  The host pairs, removes
\* the station and its module, cancels removals and unloads; no polling
\* interval elapses and no time passes on the clock.
NextPoll ==
    \/ PairWhenAuthenticated
    \/ RemoveStationOrModule
    \/ \E o \in Objs : CancelRemoveThing(o)
    \/ Unload
    \/ Authorize
    \/ DiscoveryStep(Statuses, PollStations, PollCoaches)

SpecPoll == InitPoll /\ [][NextPoll]_vars

\* SpecFetch: the poll cycles.  The host pairs and unloads and removes
\* nothing; the polling intervals elapse.
NextFetch ==
    \/ PairWhenAuthenticated
    \/ Unload
    \/ Authorize
    \/ DiscoveryStep(Statuses, PollStations, PollCoaches)
    \/ PollStep(Statuses, PollStations, PollCoaches)

SpecFetch == InitPoll /\ [][NextFetch]_vars

\* SpecAuth: one authorization attempt and the refresh cycle, from a first
\* start or a restart, under every callback request, nonce and token
\* response, with time passing; the cloud account holds no device.
NextAuth ==
    \/ Unload
    \/ CallbackStep(Methods, Paths, Bodies)
    \/ TokenStep({200, 500}, TokenResponses)
    \/ Tick
    \/ DiscoveryStep({200, 403}, {<<>>}, {<<>>})

SpecAuth == Init /\ [][NextAuth]_vars

\* SpecRefresh: the refresh cycle after one authorization, from a first
\* start or a restart; the redirect is the one the cloud issues, a token
\* request is granted or refused, and a granted response may carry no
\* refresh token; time passes.
LooseTokens ==
    [access_token : {"t1"}, refresh_token : {"", "r1"}, expires_in : ExpiresIns]

NextRefresh ==
    \/ CallbackStep({"POST"}, {"/callback"}, {GoodRedirect(n) : n \in Nonces})
    \/ TokenStep({200, 500}, LooseTokens)
    \/ Tick

SpecRefresh == Init /\ [][NextRefresh]_vars

\* SpecReconcile: discovery passes over one station with any of the modules
\* A and B and changing readings, while the host removes modules and pairs
\* again.
ReconcileStations == StationLists({TRUE}, {1, 2})

NextReconcile ==
    \/ PairWhenAuthenticated
    \/ Authorize
    \/ \E o \in Objs : o[1] \in Modules /\ HandleDeviceRemoved(o)
    \/ \E body \in Arrays(ReconcileStations) : StationsResponse(200, body)

SpecReconcile == InitPoll /\ [][NextReconcile]_vars

\* SpecOrphan: discovery passes whose device list holds a station with its
\* modules or a module on its own, while the host removes modules.
OrphanLists == {<<m>> : m \in ModuleRecs({TRUE}, {1})}

NextOrphan ==
    \/ PairWhenAuthenticated
    \/ Authorize
    \/ \E o \in Objs : o[1] \in Modules /\ HandleDeviceRemoved(o)
    \/ \E body \in Arrays(OrphanLists \cup StationLists({TRUE}, {1})) :
           StationsResponse(200, body)

SpecOrphan == InitPoll /\ [][NextOrphan]_vars

\* SpecUpdate: the poll cycles of one station with its module A, each
\* reachable or not and with changing readings; the account holds no coach
\* and every request is answered 200.
UpdateStations == {l \in StationLists(BOOLEAN, {1, 2}) :
                      \A i \in 1..Len(l) : \A j \in 1..Len(l[i].modules) :
                          l[i].modules[j].id = "A"}

NextUpdate ==
    \/ PairWhenAuthenticated
    \/ Authorize
    \/ DiscoveryStep({200}, UpdateStations, {<<>>})
    \/ PollStep({200}, UpdateStations, {<<>>})

SpecUpdate == InitPoll /\ [][NextUpdate]_vars

\* SpecSignal: the signal strength computed for every raw reading a station
\* or coach (wifi_status) or a module (rf_status) may report.
Signals == MinSignal..MaxSignal

SignalPercent(signal, min, percent) ==
    [kind |-> "signal", signal |-> signal, min |-> min, percent |-> percent]

MapWifiToPercent(wifi) ==
    /\ Saw(SignalPercent(wifi, 86, mapWifiToPercent(wifi)), "")
    /\ UNCHANGED <<adapterVars, requestVars, unloaded, tokenVars, saved,
                   refreshVars, now, authVars>>

MapRfToPercent(rf) ==
    /\ Saw(SignalPercent(rf, 90, mapRfToPercent(rf)), "")
    /\ UNCHANGED <<adapterVars, requestVars, unloaded, tokenVars, saved,
                   refreshVars, now, authVars>>

NextSignal ==
    \/ \E wifi \in Signals : MapWifiToPercent(wifi)
    \/ \E rf \in Signals : MapRfToPercent(rf)

SpecSignal == InitPoll /\ [][NextSignal]_vars

\* SpecPairing: the authorization attempt of the constructor and those the
\* host starts by pairing while the adapter is not authorized, under every
\* redirect body and under granted and refused token requests; the callback
\* requests are POSTs at /callback.
NextPairing ==
    \/ StartPairing(Nonces)
    \/ CallbackStep({"POST"}, {"/callback"}, Bodies)
    \/ \E k \in Slots, st \in {200, 500}, d \in OneToken : ExchangeResponse(k, st, d)
    \/ \E k \in Slots : ExchangeSaved(k)
    \/ \E i \in 1..MaxRefreshes, d \in OneToken : RefreshResponse(i, 200, d)
    \/ \E i \in 1..MaxRefreshes : RefreshSaved(i)

SpecPairing == InitPoll /\ [][NextPairing]_vars

\* SpecHealth: the health_idx property of a coach, constructed from one raw
\* value and updated with another.
HealthIdx(constructed, updated, v) ==
    [kind |-> "health_idx", constructed |-> constructed, updated |-> updated,
     value |-> v]

NoUpdate == [kind |-> "none"]

ConstructHealthIdx(raw) ==
    /\ last.input.kind # "health_idx"
    /\ Saw(HealthIdx(raw, NoUpdate, healthIdxConstructed(raw)), "")
    /\ UNCHANGED <<adapterVars, requestVars, unloaded, tokenVars, saved,
                   refreshVars, now, authVars>>

UpdateHealthIdx(raw) ==
    /\ last.input.kind = "health_idx"
    /\ last.input.updated = NoUpdate
    /\ Saw(HealthIdx(last.input.constructed, raw,
                     healthIdxUpdated(last.input.value, raw)), "")
    /\ UNCHANGED <<adapterVars, requestVars, unloaded, tokenVars, saved,
                   refreshVars, now, authVars>>

NextHealth ==
    \/ \E raw \in RawHealthIdx : ConstructHealthIdx(raw)
    \/ \E raw \in RawHealthIdx : UpdateHealthIdx(raw)

SpecHealth == InitPoll /\ [][NextHealth]_vars

\* SpecPairingFair: SpecPairing with callbacks that keep arriving: the
\* host delivers a POST at /callback whenever one would change anything.
CallbackArrives == CallbackStep({"POST"}, {"/callback"}, Bodies)

SpecPairingFair == SpecPairing /\ WF_vars(CallbackArrives)

\* SpecAux: an auxiliary property of a device, constructed from one reading
\* and updated with another.
Aux(prop, constructed, updated, v) ==
    [kind |-> "aux", prop |-> prop, constructed |-> constructed,
     updated |-> updated, value |-> v]

ConstructAux(prop, r) ==
    /\ last.input.kind # "aux"
    /\ Saw(Aux(prop, r, NoUpdate, auxConstructed(prop, r)), "")
    /\ UNCHANGED <<adapterVars, requestVars, unloaded, tokenVars, saved,
                   refreshVars, now, authVars>>

UpdateAux(r) ==
    /\ last.input.kind = "aux"
    /\ last.input.updated = NoUpdate
    /\ LET u == auxUpdated(last.input.prop, last.input.value, r)
       IN  Saw(Aux(last.input.prop, last.input.constructed, r, u.value), u.err)
    /\ UNCHANGED <<adapterVars, requestVars, unloaded, tokenVars, saved,
                   refreshVars, now, authVars>>

NextAux ==
    \/ \E prop \in AuxProperties, r \in AuxReadings : ConstructAux(prop, r)
    \/ \E r \in AuxReadings : UpdateAux(r)

SpecAux == InitPoll /\ [][NextAux]_vars

\* ================================================================ claims
Created(o) == o[2] <= gen[o[1]]

Registered(o) == devices[o[1]] = o[2]

\* ---------------------------------------------------------------------
\* C1: for every self-updating device object (station or health coach) a
\* polling timer is active if and only if its reference set pollingFor is
\* non-empty, in every reachable state; so the step in which stopPolling
\* empties the set is the step that cancels the timer.
C1_TimerIffReferenced ==
    \A o \in Objs : canUpdate(o) => ((ntimers[o] > 0) <=> (pollingFor[o] # {}))

\* a station that was polling, was released by its last requester and is
\* out of the registry: stopPolling has emptied its set
C1_Witness ==
    \E o \in Objs :
        /\ canUpdate(o) /\ Created(o) /\ ~Registered(o)
        /\ pollingFor[o] = {} /\ ntimers[o] = 0

\* ---------------------------------------------------------------------
\* C2: two startPolling calls on one self-updating device with different
\* requester ids leave exactly one active timer; a stopPolling for one id
\* removes only that id and keeps the timer running; the timer is cancelled
\* only by the stopPolling that empties the reference set.
C2_OneSharedTimer ==
    [][\A o \in Objs : canUpdate(o) =>
          \* never a second timer, and one timer under two requesters
          /\ ntimers'[o] <= 1
          /\ (Cardinality(pollingFor'[o]) >= 2 => ntimers'[o] = 1)
          \* a removal that leaves a requester keeps the timer
          /\ (pollingFor'[o] # {} /\ pollingFor[o] # {} => ntimers'[o] = ntimers[o])
          \* the timer goes only with the last requester
          /\ (ntimers[o] > 0 /\ ntimers'[o] = 0 => pollingFor'[o] = {})
          \* handleDeviceRemoved of a device releases that device's id alone
          /\ \A d \in Ids :
                (~unloaded' /\ devices[d] # 0 /\ devices'[d] = 0)
                    => (pollingFor[o] \ pollingFor'[o]) \subseteq {d}]_vars

\* the station is out of the registry, its module still holds the timer
C2_Witness ==
    \E o \in Objs :
        /\ canUpdate(o) /\ Created(o) /\ ~Registered(o)
        /\ pollingFor[o] = {"A"} /\ ntimers[o] = 1

\* ---------------------------------------------------------------------
\* C3: after any sequence of reconcile, handleDeviceRemoved,
\* cancelRemoveThing and startPairing calls there is at most one active
\* polling timer per remote device id.
TimersOf(id) == {o \in Objs : o[1] = id /\ ntimers[o] > 0}

C3_OneTimerPerId == \A id \in Ids : Cardinality(TimersOf(id)) <= 1

\* ---------------------------------------------------------------------
\* C5: after adapter unload no polling timer is active for any device
\* object the adapter ever created.
C5_NoTimerAfterUnload == unloaded => \A o \in Objs : ntimers[o] = 0

\* ---------------------------------------------------------------------
\* C7: after adapter unload the completion of a request that was in flight
\* adds no device to the registry, changes no property value and starts no
\* polling timer.
C7_ResultsDiscarded ==
    [][unloaded =>
          /\ devices' = devices
          /\ gen' = gen
          /\ value' = value
          /\ \A o \in Objs : ntimers'[o] <= ntimers[o]]_vars

\* ---------------------------------------------------------------------
\* C4: per top-level device never two fetch cycles in flight: a timer tick
\* starts no fetch while the fetch of an earlier tick of the same device has
\* not completed.
C4_OneFetchInFlight == \A o \in Objs : pollReq[o] <= 1

\* ---------------------------------------------------------------------
\* C6: after the controller is torn down (unInit, from unload) no refresh
\* fires and no refresh timer is scheduled, also when a refresh or a code
\* exchange in flight at the teardown completes successfully afterwards.
Fetching(rs) == {i \in 1..Len(rs) : rs[i].pc = "fetch"}

C6_NoRefreshAfterUnInit ==
    [][unloaded =>
          /\ Len(timers') <= Len(timers)
          /\ Cardinality(Fetching(refreshes')) <= Cardinality(Fetching(refreshes))]_vars

\* ---------------------------------------------------------------------
\* C8: the attempt resumed with the redirected URL goes on to the token
\* request if and only if the URL carries a state equal to the nonce issued
\* for the attempt and carries a code; in every other case the attempt ends
\* with an error, sends no token request and leaves the token store as it
\* was, so needsAuth stays true.
C8_OnlyMatchingRedirect ==
    [][\A k \in Slots :
          (/\ attempts[k].pc = "redirect"
           /\ attempts'[k].pc # "redirect"
           /\ last'.input.kind = "url")
          => LET url == last'.input.url
             IN  IF /\ url.state = attempts[k].nonce
                    /\ url.code \notin {NoParam, ""}
                 THEN /\ attempts'[k].pc = "exchange"
                      /\ last'.err = ""
                 ELSE /\ attempts'[k] = Idle
                      /\ last'.err # ""
                      /\ tokenVars' = tokenVars
                      /\ refreshVars' = refreshVars
                      /\ saved' = saved
                      /\ (needsAuth(token) => needsAuth(token'))]_vars

\* a redirect with a code and a state that is not the attempt's nonce was
\* rejected, and the store holds no token
C8_Witness ==
    /\ last.input.kind = "url"
    /\ last.input.url.state # NoParam
    /\ last.input.url.code = "c"
    /\ last.err = "flow failed"
    /\ needsAuth(token)
    /\ \A k \in Slots : attempts[k].pc = "idle"

\* ---------------------------------------------------------------------
\* C9: when the code exchange is answered with a status other than 200 the
\* attempt fails with an error; access token, refresh token, expiry and the
\* persisted config are unchanged and no refresh is scheduled or started.
C9_ExchangeFailureChangesNothing ==
    [][\A k \in Slots :
          (/\ attempts[k].pc = "exchange"
           /\ attempts'[k].pc # "exchange"
           /\ last'.input.kind = "token response"
           /\ last'.input.status # 200)
          => /\ attempts'[k] = Idle
             /\ last'.err = "token request failed"
             /\ tokenVars' = tokenVars
             /\ saved' = saved
             /\ refreshVars' = refreshVars]_vars

\* an exchange was refused
C9_Witness ==
    /\ last.input.kind = "token response"
    /\ last.input.status = 500
    /\ last.err = "token request failed"

\* ---------------------------------------------------------------------
\* C10: when the code exchange succeeded, the authorization returns with
\* the access token held (needsAuth false), the refresh token and expiry
\* persisted, and the first refresh scheduled on a timer, not started.
C10_ReturnsAuthenticated ==
    [][\A k \in Slots :
          (attempts[k].pc = "save" /\ attempts'[k].pc = "idle")
          => /\ ~needsAuth(token')
             /\ saved' = [expires |-> expires', refresh_token |-> refresh_token']
             /\ refreshInterval'
             /\ Cardinality(Fetching(refreshes')) <= Cardinality(Fetching(refreshes))]_vars

\* ---------------------------------------------------------------------
\* C11: once a successful authorization flow has completed, the adapter
\* fetches the device graph with the new token: the step in which the
\* authorization returns sends the stations and the coaches request.
ExchangeSavedStep(k) == attempts[k].pc = "save" /\ attempts'[k].pc = "idle"

C11_FetchesAfterAuthorization ==
    [][\A k \in Slots :
          ExchangeSavedStep(k) => stationsReq' > 0 /\ coachReq' > 0]_vars

\* ---------------------------------------------------------------------
\* C12: when the refresh is scheduled after a token response whose expiry
\* lies in the future, no refresh request is sent in that step and the
\* access token stays held.
Saving(rs) == {i \in 1..Len(rs) : rs[i].pc = "save"}

\* the step ends the save of a token response: initRefresh runs in it
SchedulingStep ==
    \/ \E k \in Slots : ExchangeSavedStep(k)
    \/ Cardinality(Saving(refreshes')) < Cardinality(Saving(refreshes))

C12_WaitsForExpiry ==
    [][(SchedulingStep /\ expires > now /\ ~needsAuth(token))
          => /\ token' = token
             /\ Cardinality(Fetching(refreshes')) <= Cardinality(Fetching(refreshes))]_vars

\* ---------------------------------------------------------------------
\* C13: when the refresh is scheduled and the expiry is already in the
\* past, the refresh request is sent in that step and no timer is armed,
\* whether or not an access token is held.
C13_ImmediateWhenStale ==
    [][(SchedulingStep /\ expires < now /\ refresh_token # ""
           /\ Len(refreshes) < MaxRefreshes)
          => /\ Cardinality(Fetching(refreshes')) > Cardinality(Fetching(refreshes))
             /\ ~refreshInterval'
             /\ Len(timers') <= Len(timers)]_vars

\* ---------------------------------------------------------------------
\* C14: refresh() with no refresh token held logs and returns: it raises
\* no error and sends no token request; afterwards no access token is held
\* and no refresh is scheduled.
\* the step runs refresh(): a refresh timer fires, or initRefresh takes its
\* else branch
TimerFiresStep == Len(timers') < Len(timers) /\ unloaded' = unloaded

RefreshRuns ==
    \/ TimerFiresStep
    \/ SchedulingStep /\ ~(now - expires > 0 /\ ~needsAuth(token))

C14_NoRefreshTokenIsSilent ==
    [][(RefreshRuns /\ refresh_token = "")
          => /\ last'.err = "Can not refresh token."
             /\ needsAuth(token')
             /\ Cardinality(Fetching(refreshes')) <= Cardinality(Fetching(refreshes))
             /\ ~refreshInterval'
             /\ Len(timers') <= Len(timers)
             /\ refresh_token' = ""]_vars

\* refresh() has run without a refresh token: nothing is in flight, nothing
\* is armed and no token is held
C14_Witness ==
    /\ last.err = "Can not refresh token."
    /\ refresh_token = "" /\ needsAuth(token)
    /\ refreshes = <<>> /\ timers = <<>>

\* ---------------------------------------------------------------------
\* C15: when the refresh request is answered with a status other than 200,
\* refresh() logs and returns: the access token is not restored (needsAuth
\* stays true), refresh token, expiry and the persisted config are
\* unchanged, the request is not retried and no timer is armed.
RefreshRefusedStep ==
    /\ last'.input.kind = "token response"
    /\ last'.input.status # 200
    /\ attempts' = attempts

C16_ClearedWhileRefreshing == Fetching(refreshes) # {} => needsAuth(token)

\* ---------------------------------------------------------------------
\* C17: in every reachable state needsAuth is true if and only if no access
\* token is held, whatever the stored expiry and refresh token are.
C17_NeedsAuthIffNoToken == needsAuth(token) <=> token \notin AccessTokens

\* a token is held past its expiry, and needsAuth is false
C17_Witness == token \in AccessTokens /\ expires < now /\ ~needsAuth(token)

\* ---------------------------------------------------------------------
\* C18: getStationsData / getHealthyHomeCoachData called while no access
\* token is held fail with Unauthorized: no request is sent and the token
\* store is unchanged; a data request is sent only while a token is held.
RequestSent ==
    \/ stationsReq' > stationsReq
    \/ coachReq' > coachReq
    \/ \E o \in Objs : pollReq'[o] > pollReq[o]

C18_UnauthorizedSendsNothing ==
    [][/\ (last'.err = "Unauthorized"
             => /\ needsAuth(token)
                /\ requestVars' = requestVars
                /\ tokenVars' = tokenVars
                /\ adapterVars' = adapterVars)
       /\ (RequestSent => ~needsAuth(token'))]_vars

\* the timer of a registered device fired while no token was held
C18_Witness ==
    /\ last.err = "Unauthorized"
    /\ needsAuth(token)
    /\ \E o \in Objs : Registered(o) /\ ntimers[o] > 0 /\ pollReq[o] = 0

\* ---------------------------------------------------------------------
\* C19: a 403 response to a data request clears the access token and
\* yields an empty result, the request itself raising no error; needsAuth is
\* then true until a token request is answered with 200.
\* (A TypeError is what updateDevice's callback raises on an empty result.)
DataResponseStep == last'.input.kind = "data response"

C19_ForbiddenClearsToken ==
    [][/\ (DataResponseStep /\ last'.input.status = 403)
             => /\ needsAuth(token')
                /\ refresh_token' = refresh_token /\ expires' = expires
                /\ adapterVars' = adapterVars
                /\ last'.err \in {"", "TypeError"}
       /\ (needsAuth(token) /\ ~needsAuth(token'))
             => /\ last'.input.kind = "token response"
                /\ last'.input.status = 200]_vars

\* a 403 arrived while the tokens of a granted request were being saved:
\* the token that was held is gone
C19_Witness ==
    /\ last.input.kind = "data response"
    /\ last.input.status = 403
    /\ needsAuth(token)
    /\ \/ \E k \in Slots : attempts[k].pc = "save"
       \/ Saving(refreshes) # {}

\* ---------------------------------------------------------------------
\* C20: a response with a status other than 200 and 403, and a 200 response
\* whose body.devices is no array, yield an empty result, the request
\* raising no error, and leave access token, refresh token and expiry
\* unchanged.
C20_OtherFailuresKeepToken ==
    [][(/\ DataResponseStep
        /\ \/ last'.input.status \notin {200, 403}
           \/ last'.input.status = 200 /\ ~last'.input.isArray)
          => /\ tokenVars' = tokenVars
             /\ adapterVars' = adapterVars
             /\ last'.err \in {"", "TypeError"}]_vars

\* a 200 response without a device array arrived while a token was held
C20_Witness ==
    /\ last.input.kind = "data response"
    /\ last.input.status = 200 /\ ~last.input.isArray
    /\ ~needsAuth(token)

\* ---------------------------------------------------------------------
\* C21: a poll cycle whose fetch yields an empty result (403 or another
\* non-200 response) is absorbed: the step raises no error, changes no
\* property value or connection state, and the polling timers keep running.
PollResponseOf(o) == DataResponseStep /\ pollReq'[o] < pollReq[o]

C21_EmptyPollAbsorbed ==
    [][\A o \in Objs :
          (PollResponseOf(o) /\ last'.input.status # 200)
          => /\ last'.err = ""
             /\ value' = value
             /\ connected' = connected
             /\ ntimers' = ntimers]_vars

\* ---------------------------------------------------------------------
\* C22: a discovery pass creates exactly one local device for every remote
\* id it sees that is not in the registry and none for an id that is: for
\* a station with modules [A, B], A unregistered and B registered, A is
\* created and registered under the station, B keeps its device and its
\* polling is restarted, and ids the pass does not see are left alone.
StationsDiscovered == DataResponseStep /\ stationsReq' < stationsReq

\* the remote ids of a device list: the devices and their modules
SeenIds(ds) ==
    UNION {{ds[i].id} \cup {ds[i].modules[j].id : j \in 1..Len(ds[i].modules)}
           : i \in 1..Len(ds)}

\* the self-updating object a device's polling is delegated to
Updater(o) == IF canUpdate(o) THEN o ELSE parent[o]

OrphanConstructed(id) ==
    /\ StationsDiscovered
    /\ Len(last'.input.devices) = 1
    /\ last'.input.devices[1].id = id
    /\ devices[id] = 0

C23_OrphanModuleRejected ==
    [][\A id \in Modules :
          OrphanConstructed(id)
          => /\ last'.err = "Error"
             /\ devices' = devices
             /\ pollingFor' = pollingFor
             /\ iid' = iid
             /\ ntimers' = ntimers]_vars

\* the module B arrived on its own and was rejected while the station and
\* the module A were registered and polled
C23_Witness ==
    /\ last.err = "Error"
    /\ last.input.kind = "data response"
    /\ Len(last.input.devices) = 1
    /\ last.input.devices[1].id = "B"
    /\ devices["B"] = 0
    /\ devices["S"] = 1 /\ devices["A"] = 1
    /\ pollingFor[<<"S", 1>>] = {"S", "A"}
    /\ ntimers[<<"S", 1>>] = 1

\* ---------------------------------------------------------------------
\* C24: an update with a remote device that reports reachable = false marks
\* the local device disconnected, keeps its property at the last-known value
\* and emits no property-change notification for it in that cycle.
\* the poll of o was answered with a device list that holds a device
Polled(o) ==
    /\ PollResponseOf(o)
    /\ last'.input.status = 200
    /\ Len(last'.input.devices) = 1

\* the remote devices of the answer that updateDevice passes to
\* updateProperties, each with the local device it is passed to
Updates(o) ==
    LET d == last'.input.devices[1]
    IN  {[obj |-> o, dev |-> d]}
        \cup {[obj |-> <<d.modules[j].id, devices[d.modules[j].id]>>,
               dev |-> d.modules[j]]
              : j \in {i \in 1..Len(d.modules) : devices[d.modules[i].id] # 0}}

C24_UnreachableKeepsValues ==
    [][\A o \in Objs :
          Polled(o)
          => \A u \in Updates(o) :
                ~u.dev.reachable
                => /\ connected'[u.obj] = FALSE
                   /\ value'[u.obj] = value[u.obj]
                   /\ u.obj \notin last'.notified]_vars

\* a poll found the station unreachable with a new reading and its module A
\* reachable with a new reading: the station is disconnected with its old
\* value, only the module notified
C24_Witness ==
    /\ last.input.kind = "data response"
    /\ Len(last.input.devices) = 1
    /\ last.input.devices[1].id = "S"
    /\ ~last.input.devices[1].reachable
    /\ last.input.devices[1].value = 2
    /\ last.notified = {<<"A", 1>>}
    /\ ~connected[<<"S", 1>>]
    /\ value[<<"S", 1>>] = 1

\* ---------------------------------------------------------------------
\* C25: updateProp overwrites the cached value and emits a property-change
\* notification if and only if the new value differs from the cached one:
\* after a poll every reachable device holds the reading of the answer, and
\* the devices notified are exactly those whose cached value changed; a
\* reading equal to the cached value changes nothing and notifies nobody.
C25_NotifiesIffChanged ==
    [][\A o \in Objs :
          Polled(o)
          => /\ \A u \in Updates(o) :
                   u.dev.reachable
                   => /\ value'[u.obj] = u.dev.value
                      /\ u.obj \in last'.notified <=> value[u.obj] # u.dev.value
             /\ \A x \in Objs : x \in last'.notified <=> value'[x] # value[x]]_vars

\* a poll brought a new reading for the station and the cached one for the
\* module A: the station took the reading and notified, the module did not
C25_Witness ==
    /\ last.input.kind = "data response"
    /\ Len(last.input.devices) = 1
    /\ last.input.devices[1].id = "S"
    /\ last.input.devices[1].reachable
    /\ last.input.devices[1].value = 2
    /\ Len(last.input.devices[1].modules) = 1
    /\ last.input.devices[1].modules[1].reachable
    /\ last.input.devices[1].modules[1].value = 1
    /\ devices["A"] = 1
    /\ value[<<"A", 1>>] = 1
    /\ value[<<"S", 1>>] = 2
    /\ last.notified = {<<"S", 1>>}

\* ---------------------------------------------------------------------
\* C26: for every integer raw reading and baseline (wifi 86, RF 90) with
\* range 30, mapSignalToPercent returns 3 * (baseline - raw) + 10 brought
\* into 0..100: the result is within 0..100, is non-increasing in the raw
\* reading, and is 10 for (86, 86), 100 for (56, 86) and 0 for (116, 86).
Expected(signal, min) ==
    LET v == 3 * (min - signal) + 10
    IN  IF v < 0 THEN 0 ELSE IF v > 100 THEN 100 ELSE v

C26_SignalPercent ==
    last.input.kind = "signal"
    => LET s == last.input.signal
           b == last.input.min
           p == last.input.percent
       IN  /\ p = Expected(s, b)
           /\ p \in 0..100
           /\ \A t \in Signals :
                 t >= s => mapSignalToPercent(t, b, 30) <= p
           /\ (s = 86 /\ b = 86) => p = 10
           /\ (s = 56 /\ b = 86) => p = 100
           /\ (s = 116 /\ b = 86) => p = 0

\* the wifi readings 56 (better than good, clamped to 100)
C26_Witness ==
    /\ last.input.kind = "signal"
    /\ last.input.signal = 56
    /\ last.input.min = 86
    /\ last.input.percent = 100

\* ---------------------------------------------------------------------
\* C27: the callback endpoint delivers the body of a request to the pending
\* waiter only when the request is a POST at the path /callback; a request
\* with another method or another path is not delivered to any waiter.
\* the request delivered its body to the waiting attempt
Delivered(method, path, body) ==
    /\ Callback(method, path, body)
    /\ ~resolved
    /\ resolved'

C27_OnlyPostAtCallback ==
    [][\A method \in Methods, path \in Paths, body \in Bodies :
          Delivered(method, path, body)
          => method = "POST" /\ path = "/callback"]_vars

\* ---------------------------------------------------------------------
\* C28: each accepted callback is delivered to exactly one pending
\* authorization waiter; a callback that arrives while an authorization
\* attempt is waiting always resumes that attempt.
\* the attempt is waiting for its callback
Waiting(k) == attempts[k].pc = "redirect"

C28_CallbackResumesWaiter ==
    [][\A body \in Bodies, k \in Slots :
          (Callback("POST", "/callback", body) /\ Waiting(k))
          => attempts'[k].pc # "redirect"]_vars

\* ---------------------------------------------------------------------
\* C29: every authorization-flow failure (state mismatch, missing code,
\* failed code exchange) is reported to the operator through reportError,
\* whether the flow was started by the constructor or by startPairing.
\* where the error of a failed attempt ends up.  A body that is no string
\* is logged by authenticate; every other error is thrown out of the
\* generator and rejects the promise of authenticate, which the constructor
\* does not await (its catch sees synchronous exceptions only) and
\* startPairing awaits without a catch.  reportError is called from the
\* catch of the constructor alone.
ErrorChannel(origin, err) ==
    IF err = "not a string" THEN "console.error"
    ELSE IF origin = "constructor" THEN "unhandled rejection"
    ELSE "rejection of startPairing"

FlowFailures == {"flow failed", "no code", "token request failed"}

\* the attempt ends in this step with a flow failure
FlowFailed(k) ==
    /\ attempts[k].pc \in {"redirect", "exchange"}
    /\ attempts'[k] = Idle
    /\ last'.err \in FlowFailures

C29_FlowFailuresReported ==
    [][\A k \in Slots :
          FlowFailed(k)
          => ErrorChannel(attempts[k].origin, last'.err) = "reportError"]_vars

\* ---------------------------------------------------------------------
\* C30: no operation of the core removes a local device from the registry
\* or replaces it: the entry of a registered id changes only in a call of
\* handleDeviceRemoved by the host, so a module that the cloud no longer
\* lists stays registered.
HostRemoves == \E o \in Objs : HandleDeviceRemoved(o)

C30_OnlyHostRemoves ==
    [][\A id \in Ids :
          (devices[id] # 0 /\ devices'[id] # devices[id]) => HostRemoves]_vars

\* a discovery pass listed the station without modules while the module A
\* was registered: A is still registered and polled
C30_Witness ==
    /\ last.input.kind = "data response"
    /\ last.input.status = 200
    /\ Len(last.input.devices) = 1
    /\ last.input.devices[1].id = "S"
    /\ last.input.devices[1].modules = <<>>
    /\ devices["S"] = 1
    /\ devices["A"] = 1
    /\ "A" \in pollingFor[<<"S", 1>>]

\* ---------------------------------------------------------------------
\* C31: when a discovery pass meets a remote device whose id is already in
\* the registry, it updates the existing local device in place from the
\* fetched data (property value and reachability) and restarts its polling
\* reference.
\* the remote devices of a device list: the devices and their modules
SeenDevices(ds) ==
    UNION {{ds[i]} \cup {ds[i].modules[j] : j \in 1..Len(ds[i].modules)}
           : i \in 1..Len(ds)}

C31_ReconcileUpdatesInPlace ==
    [][StationsDiscovered =>
          \A d \in SeenDevices(last'.input.devices) :
              devices[d.id] # 0
              => /\ value'[<<d.id, devices[d.id]>>] = d.value
                 /\ connected'[<<d.id, devices[d.id]>>] = d.reachable
                 /\ d.id \in pollingFor'[Updater(<<d.id, devices[d.id]>>)]]_vars

\* ---------------------------------------------------------------------
\* C32: startPolling and stopPolling on a module delegate to its parent
\* station with the module's id as requester.  The module never owns a
\* timer or a non-empty reference set; removing a module releases its id
\* at the parent, cancelRemoveThing on it requests it there again; and
\* releasing the station while a module still requests updates takes out
\* the station's id alone and keeps the one timer running.
C32_ModuleDelegatesToParent ==
    [][\A o \in Objs :
          IF canUpdate(o)
          THEN (pollingFor[o] \ {o[1]} # {} /\ devices' # devices
                   /\ HandleDeviceRemoved(o))
               => /\ pollingFor'[o] = pollingFor[o] \ {o[1]}
                  /\ ntimers[o] = 1
                  /\ ntimers'[o] = 1
          ELSE /\ ntimers'[o] = 0 /\ pollingFor'[o] = {} /\ ~iid'[o]
               /\ (devices' # devices /\ HandleDeviceRemoved(o))
                  => pollingFor'[parent[o]] = pollingFor[parent[o]] \ {o[1]}
               /\ (Created(o) /\ devices' = devices /\ last'.input = NoInput
                      /\ CancelRemoveThing(o))
                  => /\ pollingFor'[parent[o]] = pollingFor[parent[o]] \cup {o[1]}
                     /\ ntimers'[parent[o]] = 1]_vars

\* the station was released by the host while its module A is registered:
\* the station's timer runs for A alone, the module owns nothing
C32_Witness ==
    /\ devices["S"] = 0
    /\ devices["A"] = 1
    /\ parent[<<"A", 1>>] = <<"S", 1>>
    /\ pollingFor[<<"S", 1>>] = {"A"}
    /\ ntimers[<<"S", 1>>] = 1
    /\ pollingFor[<<"A", 1>>] = {}
    /\ ntimers[<<"A", 1>>] = 0

\* ---------------------------------------------------------------------
\* C33: a poll cycle never adds a device to the registry and never changes
\* a polling reference set or a timer; for a station it updates only the
\* station and those of its modules that are registered, and skips the
\* modules that are not.
C33_PollOnlyUpdates ==
    [][\A o \in Objs :
          PollResponseOf(o)
          => /\ devices' = devices
             /\ gen' = gen
             /\ parent' = parent
             /\ pollingFor' = pollingFor
             /\ iid' = iid
             /\ ntimers' = ntimers
             /\ \A x \in Objs :
                   (~Polled(o) \/ x \notin {u.obj : u \in Updates(o)})
                   => value'[x] = value[x] /\ connected'[x] = connected[x]]_vars

\* a poll of the station brought a new reading for it and listed the module
\* A, which is not registered: the station notified, no device was made
C33_Witness ==
    /\ last.input.kind = "data response"
    /\ Len(last.input.devices) = 1
    /\ Len(last.input.devices[1].modules) = 1
    /\ last.input.devices[1].modules[1].id = "A"
    /\ last.notified = {<<"S", 1>>}
    /\ devices["A"] = 0
    /\ gen["A"] = 0
    /\ pollingFor[<<"S", 1>>] = {"S"}

\* ---------------------------------------------------------------------
\* C34: after a 403 has invalidated the token nothing makes the adapter
\* authorized again by itself: the token stays empty, so that every poll
\* tick fails with Unauthorized without a request, until an authorization
\* flow started by startPairing has exchanged its code.
\* the step before this one was a data response with status 403
Invalidated ==
    /\ last.input.kind = "data response"
    /\ last.input.status = 403

\* an authorization attempt has exchanged its code in this step
CodeExchanged ==
    \E k \in Slots : attempts[k].pc = "exchange" /\ attempts'[k].pc = "save"

C34_InvalidatedUntilAuthorized ==
    [][Invalidated => (token' = "" \/ CodeExchanged)]_vars

\* ---------------------------------------------------------------------
\* C35: the health_idx property is an enumerated string: the raw index
\* 0..4 maps to Healthy, Fine, Fair, Poor, Unhealthy, and a missing or
\* non-numeric raw value maps to the empty string, both when the device is
\* constructed and when it is updated.
\* the raw value the property was last written from
LastRaw ==
    IF last.input.updated = NoUpdate
    THEN last.input.constructed ELSE last.input.updated

C35_HealthIndexNames ==
    last.input.kind = "health_idx"
    => /\ (LastRaw.kind = "number" /\ LastRaw.n \in 0..4)
          => last.input.value = HEALTH_IDX_MAP[LastRaw.n + 1]
       /\ LastRaw.kind \in {"missing", "text", "null"}
          => last.input.value = ""

\* ---------------------------------------------------------------------
\* C36: an adapter started with a stored refresh token does not prompt the
\* user for authorization at startup: the attempt of the constructor waits
\* for its callback only when no refresh token is stored.
\* the constructor has sent the pairing prompt and waits for the callback
PromptedAtStartup ==
    \E k \in Slots : Waiting(k) /\ attempts[k].origin = "constructor"

C36_NoPromptWithRefreshToken ==
    PromptedAtStartup => saved.refresh_token = ""

\* ---------------------------------------------------------------------
\* C37: at most one token refresh is pending or in flight per controller:
\* there is never more than one scheduled refresh timer, and a refresh
\* request is never sent while another refresh request or a code exchange
\* request of the controller is in flight.
\* the attempts whose code exchange request is in flight
Exchanging == {k \in Slots : attempts[k].pc = "exchange"}

\* a refresh request is sent in this step
RefreshSent ==
    Cardinality(Fetching(refreshes')) > Cardinality(Fetching(refreshes))

C37_OneRefreshAtATime ==
    [][/\ Len(timers') <= 1
       /\ RefreshSent => Fetching(refreshes) = {} /\ Exchanging = {}]_vars

\* ---------------------------------------------------------------------
\* C38: when two authorization attempts are pending at the same time,
\* every attempt eventually resumes once callbacks arrive: an attempt that
\* waits for its callback does not wait forever.
C38_EveryWaiterResumes ==
    \A k \in Slots : Waiting(k) ~> ~Waiting(k)

\* ---------------------------------------------------------------------
\* C39: in every reachable state every requester id held in a polling
\* reference set is the id of a device that is in the registry.
C39_RequestersRegistered ==
    \A o \in Objs : \A id \in pollingFor[o] : devices[id] # 0

\* ---------------------------------------------------------------------
\* C40: an update cycle only writes properties that were attached when the
\* device was constructed: when an auxiliary reading (battery, signal,
\* calibrating) was absent or zero at construction, a later update
\* completes without error and without creating or writing that property.
C40_UnattachedPropertySkipped ==
    (/\ last.input.kind = "aux"
     /\ last.input.updated # NoUpdate
     /\ ~AuxPresent(last.input.prop, last.input.constructed))
    => /\ last.err = ""
       /\ last.input.value = Absent

====
